---- MODULE Spec2Model ----
(***************************************************************************)
(* The hourly cost-budget rate limiter of the fantasy-football app          *)
(* (rate_limiter.py) and the call sites that gate paid LLM calls with it.   *)
(*                                                                          *)
(* Money is an integer number of 1e-7 USD, so that every price of the       *)
(* price table and every cost is exact: 0.01/1000 USD per token is 100,     *)
(* HOURLY_LIMIT = 10.00 USD is 100000000.  Python computes the same sums    *)
(* in binary floating point; the model is the exact-arithmetic reading.     *)
(*                                                                          *)
(* Time is a tick counter; one hour is TicksPerHour ticks.  A timestamp is  *)
(* stored the way datetime.isoformat() writes it (the fraction is left out  *)
(* when it is zero) and read back with fromisoformat().                     *)
(***************************************************************************)
EXTENDS Integers, Sequences, FiniteSets, TLC

VARIABLES
    enabled,        \* RATE_LIMITING_ENABLED of the API process: rate_limiter was imported
    sessionAvail,   \* st.session_state["rate_limiter_data"] can be read (TRUE) or raises (FALSE)
    hasFallback,    \* the instances that own a _fallback_data dict
    data,           \* the ledgers: the session-state dict and each instance's _fallback_data
    now,            \* datetime.now(), in ticks
    log,            \* history: every record_usage call so far, <<ledger, time, cost>>,
                    \* and every reset_daily_usage call, <<ledger, time, 0, "reset">>
    ret             \* the last completed operation, its arguments and what it returned

vars == <<enabled, sessionAvail, hasFallback, data, now, log, ret>>

----------------------------------------------------------------------------
(* Bounds of the model *)

MaxTime == 3          \* the clock stops here
MaxRecords == 2       \* record_usage calls in one behaviour
PriorChats == 397     \* approved /chat requests served before SpecGated starts

----------------------------------------------------------------------------
(* Constants of rate_limiter.py *)

OPENAI_PRICING ==
    [m \in {"gpt-4", "gpt-4-turbo", "gpt-3.5-turbo"} |->
        CASE m = "gpt-4"         -> [input |-> 300, output |-> 600]
          [] m = "gpt-4-turbo"   -> [input |-> 100, output |-> 300]
          [] m = "gpt-3.5-turbo" -> [input |-> 5,   output |-> 15]]

DEFAULT_MODEL == "gpt-4-turbo"

HOURLY_LIMIT == 100000000

\* timedelta(hours=1), in clock ticks of half an hour
TicksPerHour == 2

\* units of one cent, the resolution of the ":.2f" format
CentUnits == 100000

\* a percentage is an integer number of 1e-4 percent: 100 percent is PctUnits
PctUnits == 1000000

\* the RateLimiter objects: rate_limiter.rate_limiter, api/main.py's rate_limiter
\* and the limiter of test_rate_limiting.py
Instances == {"module", "api", "test"}

Stores == {"session"} \cup Instances

\* model names passed by the call sites and by the tests
ModelNames == {"gpt-4", "gpt-4-turbo", "gpt-3.5-turbo", "gpt-4o", "unknown-model-xyz"}

----------------------------------------------------------------------------
(* Timestamps *)

\* datetime.isoformat(): whole part, and the fraction only when it is not zero
IsoFormat(t) ==
    IF t % TicksPerHour = 0
    THEN <<t \div TicksPerHour>>
    ELSE <<t \div TicksPerHour, t % TicksPerHour>>

\* datetime.fromisoformat()
FromIsoFormat(s) ==
    IF Len(s) = 1 THEN s[1] * TicksPerHour ELSE s[1] * TicksPerHour + s[2]

----------------------------------------------------------------------------
(* The ledger *)

\* mutant: a new ledger starts with one cent already spent
NewData_seeded(t) ==
    [hourly_usage |-> << <<IsoFormat(t), CentUnits>> >>, total_spent_today |-> CentUnits,
     last_reset |-> IsoFormat(t)]

NewData(t) ==
    [hourly_usage |-> <<>>, total_spent_today |-> 0, last_reset |-> IsoFormat(t)]

\* _get_data: the dict the instance reads and writes.  Without a session-state
\* entry and without _fallback_data it is a new dict on every call ("temp"),
\* which nothing keeps.
get_data(i) ==
    IF sessionAvail THEN "session"
    ELSE IF i \in hasFallback THEN i
    ELSE "temp"

LoadFrom(dm, k) == IF k = "temp" THEN NewData(now) ELSE dm[k]

StoreIn(dm, k, d) == IF k = "temp" THEN dm ELSE [dm EXCEPT ![k] = d]

Load(k) == LoadFrom(data, k)

Store(k, d) == StoreIn(data, k, d)

RECURSIVE SumField(_, _, _, _)
\* the sum of field f over s[lo..hi], by halves
SumField(s, f, lo, hi) ==
    IF lo > hi THEN 0
    ELSE IF lo = hi THEN s[lo][f]
    ELSE LET mid == (lo + hi) \div 2
         IN  SumField(s, f, lo, mid) + SumField(s, f, mid + 1, hi)

\* sum(cost for _, cost in hourly_usage)
SumCosts(s) == SumField(s, 2, 1, Len(s))

\* the total cost of a history of record_usage calls
SumLog0(l) == SumField(l, 3, 1, Len(l))

\* mutant: the cutoff is two hours back
Keep_two_hours(rec, t) == FromIsoFormat(rec[1]) > t - 2 * TicksPerHour

\* the filter of _clean_old_usage
\* mutant: a record exactly one hour old is kept
Keep_inclusive(rec, t) == FromIsoFormat(rec[1]) >= t - TicksPerHour

Keep(rec, t) == FromIsoFormat(rec[1]) > t - TicksPerHour

\* mutant: eviction takes the evicted costs off the daily total
clean_old_usage_decay(d, t) ==
    [d EXCEPT !.hourly_usage = SelectSeq(@, LAMBDA rec : FromIsoFormat(rec[1]) > t - TicksPerHour),
              !.total_spent_today =
                  @ - SumCosts(SelectSeq(d.hourly_usage,
                          LAMBDA rec : ~(FromIsoFormat(rec[1]) > t - TicksPerHour)))]

clean_old_usage(d, t) ==
    [d EXCEPT !.hourly_usage = SelectSeq(@, LAMBDA rec : Keep(rec, t))]

\* mutant: reading the usage consumes the records it summed
get_current_hourly_usage_consume(d, t) ==
    LET d1 == clean_old_usage(d, t)
    IN  [data |-> [d1 EXCEPT !.hourly_usage = <<>>], value |-> SumCosts(d1.hourly_usage)]

get_current_hourly_usage(d, t) ==
    LET d1 == clean_old_usage(d, t)
    IN  [data |-> d1, value |-> SumCosts(d1.hourly_usage)]

\* mutant: an unknown model is priced as gpt-4
estimate_request_cost_gpt4(model, input_tokens, output_tokens) ==
    LET m == IF model \notin DOMAIN OPENAI_PRICING THEN "gpt-4" ELSE model
        pricing == OPENAI_PRICING[m]
        input_cost == input_tokens * pricing.input
        output_cost == output_tokens * pricing.output
    IN  input_cost + output_cost

\* mutant: the two prices are swapped
estimate_request_cost_swapped(model, input_tokens, output_tokens) ==
    LET m == IF model \notin DOMAIN OPENAI_PRICING THEN DEFAULT_MODEL ELSE model
        pricing == OPENAI_PRICING[m]
        input_cost == input_tokens * pricing.output
        output_cost == output_tokens * pricing.input
    IN  input_cost + output_cost

estimate_request_cost(model, input_tokens, output_tokens) ==
    LET m == IF model \notin DOMAIN OPENAI_PRICING THEN DEFAULT_MODEL ELSE model
        pricing == OPENAI_PRICING[m]
        input_cost == input_tokens * pricing.input
        output_cost == output_tokens * pricing.output
    IN  input_cost + output_cost

\* format(x, ".2f"): the number of cents nearest to x, ties to even
Fmt2(x) ==
    LET a == IF x < 0 THEN 0 - x ELSE x
        q == a \div CentUnits
        r == a % CentUnits
        v == IF 2 * r > CentUnits \/ (2 * r = CentUnits /\ q % 2 = 1) THEN q + 1 ELSE q
    IN  IF x < 0 THEN 0 - v ELSE v

\* round(x, n) for the n whose last digit is worth unit: nearest, ties to even
Round(x, unit) ==
    LET q == x \div unit
        r == x % unit
    IN  IF 2 * r > unit \/ (2 * r = unit /\ q % 2 = 1) THEN (q + 1) * unit ELSE q * unit

NoReason == [text |-> "", limit |-> 0, usage |-> 0, cost |-> 0, remaining |-> 0]

WithinLimits == [NoReason EXCEPT !.text = "Request within limits"]

\* mutant: the remaining budget is what would be left after the request
ExceedReason_after(current_usage, estimated_cost) ==
    LET remaining_budget == HOURLY_LIMIT - current_usage - estimated_cost
    IN  [text |-> "Would exceed hourly limit",
         limit |-> Fmt2(HOURLY_LIMIT),
         usage |-> Fmt2(current_usage),
         cost |-> Fmt2(estimated_cost),
         remaining |-> Fmt2(remaining_budget)]

ExceedReason(current_usage, estimated_cost) ==
    LET remaining_budget == HOURLY_LIMIT - current_usage
    IN  [text |-> "Would exceed hourly limit",
         limit |-> Fmt2(HOURLY_LIMIT),
         usage |-> Fmt2(current_usage),
         cost |-> Fmt2(estimated_cost),
         remaining |-> Fmt2(remaining_budget)]

\* mutant: the comparison of line 111 written with >=
can_make_request_ge(d, t, model, input_tokens, output_tokens) ==
    LET cur == get_current_hourly_usage(d, t)
        current_usage == cur.value
        estimated_cost == estimate_request_cost(model, input_tokens, output_tokens)
    IN  IF current_usage + estimated_cost >= HOURLY_LIMIT
        THEN [data |-> cur.data, usage |-> current_usage, allowed |-> FALSE,
              cost |-> estimated_cost,
              reason |-> ExceedReason(current_usage, estimated_cost)]
        ELSE [data |-> cur.data, usage |-> current_usage, allowed |-> TRUE,
              cost |-> estimated_cost, reason |-> WithinLimits]

\* mutant: an approved check reserves its estimate in the ledger
can_make_request_reserve(d, t, model, input_tokens, output_tokens) ==
    LET cur == get_current_hourly_usage(d, t)
        current_usage == cur.value
        estimated_cost == estimate_request_cost(model, input_tokens, output_tokens)
    IN  IF current_usage + estimated_cost > HOURLY_LIMIT
        THEN [data |-> cur.data, usage |-> current_usage, allowed |-> FALSE,
              cost |-> estimated_cost,
              reason |-> ExceedReason(current_usage, estimated_cost)]
        ELSE [data |-> [cur.data EXCEPT !.hourly_usage =
                            Append(@, <<IsoFormat(t), estimated_cost>>)],
              usage |-> current_usage, allowed |-> TRUE,
              cost |-> estimated_cost, reason |-> WithinLimits]

\* mutant: the estimate is left out of the comparison
can_make_request_lagging(d, t, model, input_tokens, output_tokens) ==
    LET cur == get_current_hourly_usage(d, t)
        current_usage == cur.value
        estimated_cost == estimate_request_cost(model, input_tokens, output_tokens)
    IN  IF current_usage > HOURLY_LIMIT
        THEN [data |-> cur.data, usage |-> current_usage, allowed |-> FALSE,
              cost |-> estimated_cost,
              reason |-> ExceedReason(current_usage, estimated_cost)]
        ELSE [data |-> cur.data, usage |-> current_usage, allowed |-> TRUE,
              cost |-> estimated_cost, reason |-> WithinLimits]

can_make_request(d, t, model, input_tokens, output_tokens) ==
    LET cur == get_current_hourly_usage(d, t)
        current_usage == cur.value
        estimated_cost == estimate_request_cost(model, input_tokens, output_tokens)
    IN  IF current_usage + estimated_cost > HOURLY_LIMIT
        THEN [data |-> cur.data, usage |-> current_usage, allowed |-> FALSE,
              cost |-> estimated_cost,
              reason |-> ExceedReason(current_usage, estimated_cost)]
        ELSE [data |-> cur.data, usage |-> current_usage, allowed |-> TRUE,
              cost |-> estimated_cost, reason |-> WithinLimits]

\* mutant: the remaining budget is not floored at 0
get_usage_stats_no_floor(d, t) ==
    LET cur == get_current_hourly_usage(d, t)
        current_usage == cur.value
    IN  [data |-> cur.data,
         stats |-> [hourly_usage |-> current_usage,
                    hourly_limit |-> HOURLY_LIMIT,
                    remaining_budget |-> HOURLY_LIMIT - current_usage,
                    usage_percentage |-> current_usage \div (HOURLY_LIMIT \div PctUnits),
                    requests_this_hour |-> Len(cur.data.hourly_usage),
                    daily_total |-> cur.data.total_spent_today]]

get_usage_stats(d, t) ==
    LET cur == get_current_hourly_usage(d, t)
        current_usage == cur.value
    IN  [data |-> cur.data,
         stats |-> [hourly_usage |-> current_usage,
                    hourly_limit |-> HOURLY_LIMIT,
                    remaining_budget |-> IF HOURLY_LIMIT - current_usage > 0
                                         THEN HOURLY_LIMIT - current_usage ELSE 0,
                    usage_percentage |-> current_usage \div (HOURLY_LIMIT \div PctUnits),
                    requests_this_hour |-> Len(cur.data.hourly_usage),
                    daily_total |-> cur.data.total_spent_today]]

\* mutant: the cost is stored with the opposite sign
record_usage_refund(d, t, actual_cost) ==
    clean_old_usage(
        [d EXCEPT !.hourly_usage = Append(@, <<IsoFormat(t), 0 - actual_cost>>),
                  !.total_spent_today = @ - actual_cost], t)

\* mutant: the new record replaces the list instead of being appended
record_usage_overwrite(d, t, actual_cost) ==
    clean_old_usage(
        [d EXCEPT !.hourly_usage = << <<IsoFormat(t), actual_cost>> >>,
                  !.total_spent_today = @ + actual_cost], t)

\* mutant: the daily total is not updated
record_usage_no_total(d, t, actual_cost) ==
    clean_old_usage(
        [d EXCEPT !.hourly_usage = Append(@, <<IsoFormat(t), actual_cost>>)], t)

\* mutant: the new record is put at the head of the list
record_usage_prepend(d, t, actual_cost) ==
    clean_old_usage(
        [d EXCEPT !.hourly_usage = << <<IsoFormat(t), actual_cost>> >> \o @,
                  !.total_spent_today = @ + actual_cost], t)

record_usage(d, t, actual_cost) ==
    clean_old_usage(
        [d EXCEPT !.hourly_usage = Append(@, <<IsoFormat(t), actual_cost>>),
                  !.total_spent_today = @ + actual_cost], t)

\* mutant: the daily reset also empties the hourly records
reset_daily_usage_clear(d, t) ==
    [d EXCEPT !.hourly_usage = <<>>, !.total_spent_today = 0, !.last_reset = IsoFormat(t)]

reset_daily_usage(d, t) ==
    [d EXCEPT !.total_spent_today = 0, !.last_reset = IsoFormat(t)]

----------------------------------------------------------------------------
(* The record of the last operation *)

NoStats ==
    [hourly_usage |-> 0, hourly_limit |-> 0, remaining_budget |-> 0,
     usage_percentage |-> 0, requests_this_hour |-> 0, daily_total |-> 0]

NoResult == [kind |-> "", model |-> "", prompt_tokens |-> 0, completion_tokens |-> 0]

NoRet ==
    [op |-> "none", inst |-> "module", at |-> 0, model |-> "", inp |-> 0, out |-> 0,
     allowed |-> FALSE, cost |-> 0, usage |-> 0, reason |-> NoReason,
     stats |-> NoStats, evicted |-> 0, repeat |-> 0, status |-> 0,
     tool |-> "", inner |-> 0, records |-> 0, paid |-> 0, checked |-> FALSE,
     shown |-> 0, twice |-> -1, returned |-> "", result |-> NoResult]

\* 2 when the call repeats the previous one (same operation, instance and
\* arguments, nothing else called in between), else 1
Repeat(op, i, a) ==
    IF ret.op = op /\ ret.inst = i /\ <<ret.model, ret.inp, ret.out>> = a THEN 2 ELSE 1

\* when the call repeats the previous one at the same instant: how many records
\* the previous one removed; else -1
Twice(op, i) ==
    IF ret.op = op /\ ret.inst = i /\ ret.at = now THEN ret.evicted ELSE -1

\* how many records of the ledger an operation removed
Evicted(d0, d1, appended) == Len(d0.hourly_usage) + appended - Len(d1.hourly_usage)

----------------------------------------------------------------------------
(* Inputs *)

\* (model, estimated_input_tokens, estimated_output_tokens) of the callers:
\* the defaults, /ai/optimize_lineup and a priced model of the table
CallArgs ==
    { <<"gpt-4-turbo", 1000, 500>>, <<"gpt-4o", 1500, 800>>, <<"gpt-4", 2500, 1500>> }

\* costs handed to record_usage: an estimate (0.025), HOURLY_LIMIT - 0.01 as in
\* test_rate_limiting.py, and 9.95
RecordCosts == { 250000, 99900000, 99500000 }

----------------------------------------------------------------------------
(* Initial state: both RateLimiter objects constructed at time 0, either with *)
(* a working session state (one shared dict) or without (one dict each)       *)

Init ==
    /\ enabled = TRUE
    /\ sessionAvail \in BOOLEAN
    /\ hasFallback = IF sessionAvail THEN {} ELSE Instances
    /\ data = [k \in Stores |-> NewData(0)]
    /\ now = 0
    /\ log = <<>>
    /\ ret = NoRet

----------------------------------------------------------------------------
(* Operations of RateLimiter, called on instance i *)

\* the clock advances
Tick ==
    /\ now < MaxTime
    /\ now' = now + 1
    /\ UNCHANGED <<enabled, sessionAvail, hasFallback, data, log, ret>>

GetCurrentHourlyUsageCall(i) ==
    LET k == get_data(i)
        r == get_current_hourly_usage(Load(k), now)
    IN  /\ data' = Store(k, r.data)
        /\ ret' = [NoRet EXCEPT !.op = "get_current_hourly_usage", !.inst = i, !.at = now,
                                !.usage = r.value,
                                !.evicted = Evicted(Load(k), r.data, 0),
                                !.twice = Twice("get_current_hourly_usage", i)]
        /\ UNCHANGED <<enabled, sessionAvail, hasFallback, now, log>>

CanMakeRequestCall(i, a) ==
    LET k == get_data(i)
        r == can_make_request(Load(k), now, a[1], a[2], a[3])
    IN  /\ data' = Store(k, r.data)
        /\ ret' = [NoRet EXCEPT !.op = "can_make_request", !.inst = i, !.at = now,
                                !.model = a[1], !.inp = a[2], !.out = a[3],
                                !.allowed = r.allowed, !.cost = r.cost, !.usage = r.usage,
                                !.reason = r.reason,
                                !.evicted = Evicted(Load(k), r.data, 0),
                                !.repeat = Repeat("can_make_request", i, a)]
        /\ UNCHANGED <<enabled, sessionAvail, hasFallback, now, log>>

RecordUsage(i, c) ==
    LET k == get_data(i)
        d == record_usage(Load(k), now, c)
    IN  /\ log' = Append(log, <<k, now, c>>)
        /\ data' = Store(k, d)
        /\ ret' = [NoRet EXCEPT !.op = "record_usage", !.inst = i, !.at = now, !.cost = c,
                                !.evicted = Evicted(Load(k), d, 1)]
        /\ UNCHANGED <<enabled, sessionAvail, hasFallback, now>>

RecordUsageCall(i, c) == Len(log) < MaxRecords /\ RecordUsage(i, c)

GetUsageStatsCall(i) ==
    LET k == get_data(i)
        r == get_usage_stats(Load(k), now)
    IN  /\ data' = Store(k, r.data)
        /\ ret' = [NoRet EXCEPT !.op = "get_usage_stats", !.inst = i, !.at = now,
                                !.usage = r.stats.hourly_usage, !.stats = r.stats,
                                !.evicted = Evicted(Load(k), r.data, 0)]
        /\ UNCHANGED <<enabled, sessionAvail, hasFallback, now, log>>

\* Spec drives the module-level instance, rate_limiter.rate_limiter
Next ==
    \/ Tick
    \/ GetCurrentHourlyUsageCall("module")
    \/ \E a \in CallArgs : CanMakeRequestCall("module", a)
    \/ \E c \in RecordCosts : RecordUsageCall("module", c)
    \/ GetUsageStatsCall("module")

Spec == Init /\ [][Next]_vars

----------------------------------------------------------------------------
(* SpecEstimate: estimate_request_cost and can_make_request applied to every  *)
(* model name and token count of the input sets                               *)

\* token counts of the call sites and of get_feature_cost_estimates, and 0
InputTokens == {0, 500, 800, 1000, 1500, 2000, 2500}
OutputTokens == {0, 300, 500, 800, 1200, 1500}

\* the ledger before the call: empty, or one record of 9.95 made at time 0
PriorLogs(k) == { <<>>, << <<k, 0, 99500000>> >> }

RECURSIVE Replay(_, _)
\* the ledger after the record_usage calls of a log, starting from d
Replay(d, l) ==
    IF l = <<>> THEN d ELSE Replay(record_usage(d, l[1][2], l[1][3]), Tail(l))

InitEstimate ==
    /\ enabled = TRUE
    /\ sessionAvail \in BOOLEAN
    /\ hasFallback = IF sessionAvail THEN {} ELSE Instances
    /\ now = 0
    /\ log \in PriorLogs(get_data("module"))
    /\ data = [k \in Stores |->
                  IF k = get_data("module") THEN Replay(NewData(0), log) ELSE NewData(0)]
    /\ \E m \in ModelNames, a \in InputTokens, b \in OutputTokens :
          ret = [NoRet EXCEPT !.op = "input", !.model = m, !.inp = a, !.out = b]

EstimateRequestCostCall ==
    /\ ret.op = "input"
    /\ ret' = [ret EXCEPT !.op = "estimate_request_cost",
                          !.cost = estimate_request_cost(ret.model, ret.inp, ret.out)]
    /\ UNCHANGED <<enabled, sessionAvail, hasFallback, data, now, log>>

CanMakeRequestInput ==
    /\ ret.op = "input"
    /\ CanMakeRequestCall("module", <<ret.model, ret.inp, ret.out>>)

NextEstimate ==
    \/ EstimateRequestCostCall
    \/ CanMakeRequestInput

SpecEstimate == InitEstimate /\ [][NextEstimate]_vars

----------------------------------------------------------------------------
(* SpecTest: the script of test_rate_limiting.py on its own RateLimiter, the  *)
(* clock running meanwhile.  The script's position is told by the number of  *)
(* records made and by the last call.                                         *)

\* the features of the cost-estimation test, in the order of the loop
TestFeatures == << <<1500, 800>>, <<800, 600>>, <<2000, 1200>>, <<2500, 1500>> >>

\* the costs the script records: 0.05, 0.08, 0.12 and HOURLY_LIMIT - 0.01
TestCosts == <<500000, 800000, 1200000, HOURLY_LIMIT - CentUnits>>

\* 1: initial state
TestInitialState ==
    /\ ret.op = "none"
    /\ GetUsageStatsCall("test")

\* 2: cost estimation of every feature; ret keeps the last one
TestCostEstimation ==
    /\ ret.op = "get_usage_stats" /\ log = <<>>
    /\ LET f == TestFeatures[Len(TestFeatures)]
       IN  ret' = [NoRet EXCEPT !.op = "estimate_request_cost", !.inst = "test", !.at = now,
                                !.model = "gpt-4-turbo", !.inp = f[1], !.out = f[2],
                                !.cost = estimate_request_cost("gpt-4-turbo", f[1], f[2])]
    /\ UNCHANGED <<enabled, sessionAvail, hasFallback, data, now, log>>

\* 3 and 5: can_make_request("gpt-4-turbo", 1500, 800)
TestEnforcement ==
    /\ \/ ret.op = "estimate_request_cost"
       \/ ret.op = "record_usage" /\ Len(log) = Len(TestCosts)
    /\ CanMakeRequestCall("test", <<"gpt-4-turbo", 1500, 800>>)

\* 4 and 5: the next record_usage of the script
TestRecording ==
    /\ \/ ret.op = "can_make_request" /\ log = <<>>
       \/ ret.op = "record_usage" /\ Len(log) < Len(TestCosts) - 1
       \/ ret.op = "get_usage_stats" /\ Len(log) = Len(TestCosts) - 1
    /\ RecordUsage("test", TestCosts[Len(log) + 1])

\* 4 and 6: get_usage_stats after the three records and at the end
TestStats ==
    /\ \/ ret.op = "record_usage" /\ Len(log) = Len(TestCosts) - 1
       \/ ret.op = "can_make_request" /\ Len(log) = Len(TestCosts)
    /\ GetUsageStatsCall("test")

NextTest ==
    \/ Tick
    \/ TestInitialState
    \/ TestCostEstimation
    \/ TestEnforcement
    \/ TestRecording
    \/ TestStats

SpecTest == Init /\ [][NextTest]_vars

----------------------------------------------------------------------------
(* The gated call sites: the decorator of rate_limiter.py around the methods  *)
(* of FantasyAIService, and the endpoints of api/main.py.  A handler runs to  *)
(* its end without yielding, so each is one step.                             *)

\* what a decorated function hands back
DictResult == [kind |-> "dict", model |-> "", prompt_tokens |-> 0, completion_tokens |-> 0]

\* mutant: the response is always priced as the default model
calculate_actual_cost_default(response) ==
    IF response.kind = "broken"
    THEN estimate_request_cost(DEFAULT_MODEL, 1000, 500)
    ELSE response.prompt_tokens * OPENAI_PRICING[DEFAULT_MODEL].input
         + response.completion_tokens * OPENAI_PRICING[DEFAULT_MODEL].output

calculate_actual_cost(response) ==
    IF response.kind = "broken"
    THEN estimate_request_cost(DEFAULT_MODEL, 1000, 500)
    ELSE LET model == IF response.model \notin DOMAIN OPENAI_PRICING
                      THEN DEFAULT_MODEL ELSE response.model
             pricing == OPENAI_PRICING[model]
             input_cost == response.prompt_tokens * pricing.input
             output_cost == response.completion_tokens * pricing.output
         IN  input_cost + output_cost

\* mutant: the estimate is recorded when func raises
wrapper_record_on_raise(dm, estimated_input_tokens, estimated_output_tokens, result) ==
    LET k == get_data("module")
        chk == can_make_request(LoadFrom(dm, k), now, DEFAULT_MODEL,
                                estimated_input_tokens, estimated_output_tokens)
        dm1 == StoreIn(dm, k, chk.data)
        cost == IF result.kind \in {"response", "broken"}
                THEN calculate_actual_cost(result) ELSE chk.cost
    IN  IF ~chk.allowed
        THEN [data |-> dm1, returned |-> "None", called |-> 0, recorded |-> <<>>]
        ELSE [data |-> StoreIn(dm1, k, record_usage(LoadFrom(dm1, k), now, cost)),
              returned |-> IF result.kind = "raise" THEN "None" ELSE result.kind,
              called |-> 1,
              recorded |-> << <<k, now, cost>> >>]

\* check_rate_limit_decorator(...)(func)(...), on the module-level instance;
\* result says what func does when it is run
wrapper(dm, estimated_input_tokens, estimated_output_tokens, result) ==
    LET k == get_data("module")
        chk == can_make_request(LoadFrom(dm, k), now, DEFAULT_MODEL,
                                estimated_input_tokens, estimated_output_tokens)
        dm1 == StoreIn(dm, k, chk.data)
        cost == IF result.kind \in {"response", "broken"}
                THEN calculate_actual_cost(result) ELSE chk.cost
    IN  IF ~chk.allowed
        THEN [data |-> dm1, returned |-> "None", called |-> 0, recorded |-> <<>>]
        ELSE IF result.kind = "raise"
        THEN [data |-> dm1, returned |-> "None", called |-> 1, recorded |-> <<>>]
        ELSE [data |-> StoreIn(dm1, k, record_usage(LoadFrom(dm1, k), now, cost)),
              returned |-> result.kind, called |-> 1,
              recorded |-> << <<k, now, cost>> >>]

\* mutant: the limiter is used whether or not it was imported
check_rate_limit_always(dm, model, estimated_input, estimated_output) ==
    LET k == get_data("api")
        r == can_make_request(LoadFrom(dm, k), now, model, estimated_input, estimated_output)
    IN  [data |-> StoreIn(dm, k, r.data),
         status |-> IF r.allowed THEN 200 ELSE 429,
         cost |-> r.cost]

\* api/main.py check_rate_limit, on the instance of api/main.py; 0.0 is
\* returned when the limiter was not imported
check_rate_limit(dm, model, estimated_input, estimated_output) ==
    LET k == get_data("api")
        r == can_make_request(LoadFrom(dm, k), now, model, estimated_input, estimated_output)
    IN  IF enabled
        THEN [data |-> StoreIn(dm, k, r.data),
              status |-> IF r.allowed THEN 200 ELSE 429,
              cost |-> r.cost]
        ELSE [data |-> dm, status |-> 200, cost |-> 0]

\* api/main.py record_api_usage
record_api_usage(dm, cost) ==
    LET k == get_data("api")
    IN  IF enabled
        THEN [data |-> StoreIn(dm, k, record_usage(LoadFrom(dm, k), now, cost)),
              recorded |-> << <<k, now, cost>> >>]
        ELSE [data |-> dm, recorded |-> <<>>]

\* ai_services.py: a method of FantasyAIService under its decorator, which is
\* check_rate_limit_decorator of rate_limiter.py or, when that cannot be
\* imported, a decorator that returns the function itself
decorated(dm, estimated_input_tokens, estimated_output_tokens, result) ==
    IF enabled
    THEN wrapper(dm, estimated_input_tokens, estimated_output_tokens, result)
    ELSE [data |-> dm, returned |-> result.kind, called |-> 1, recorded |-> <<>>]

\* the endpoints that call a decorated method of FantasyAIService, with the
\* estimate both the endpoint and the decorator pass
AiEndpoints ==
    { [name |-> "/ai/optimize_lineup", inp |-> 1500, out |-> 800],
      [name |-> "/ai/compare_players", inp |-> 800, out |-> 600],
      [name |-> "/ai/waiver_wire", inp |-> 2000, out |-> 1200],
      [name |-> "/ai/trade_analysis", inp |-> 2500, out |-> 1500] }

\* ai_optimize_lineup and its three siblings; fetch_ok: the ESPN data was read
\* (otherwise an HTTPException leaves before the service is called)
ai_endpoint(dm, e, fetch_ok) ==
    LET chk == check_rate_limit(dm, "gpt-4o", e.inp, e.out)
        w == decorated(chk.data, e.inp, e.out, DictResult)
        rec == record_api_usage(w.data, chk.cost)
    IN  IF chk.status = 429
        THEN [data |-> chk.data, status |-> 429, cost |-> chk.cost, recorded |-> <<>>,
              paid |-> 0]
        ELSE IF ~fetch_ok
        THEN [data |-> chk.data, status |-> 400, cost |-> chk.cost, recorded |-> <<>>,
              paid |-> 0]
        ELSE [data |-> rec.data, status |-> 200, cost |-> chk.cost,
              recorded |-> w.recorded \o rec.recorded, paid |-> w.called]

\* chat_complete (1000, 500) and ai_injury_report (500, 400): outcome is
\* "ok", "raise" (the handler fails after the call of the LLM service) or "skip"
\* (no web search: no call, nothing recorded); paid counts the calls of the service
direct_endpoint(dm, inp, out, outcome) ==
    LET chk == check_rate_limit(dm, "gpt-4o", inp, out)
        rec == record_api_usage(chk.data, chk.cost)
    IN  IF chk.status = 429
        THEN [data |-> chk.data, status |-> 429, cost |-> chk.cost, recorded |-> <<>>,
              paid |-> 0]
        ELSE IF outcome = "raise"
        THEN [data |-> chk.data, status |-> 500, cost |-> chk.cost, recorded |-> <<>>,
              paid |-> 1]
        ELSE IF outcome = "skip"
        THEN [data |-> chk.data, status |-> 200, cost |-> chk.cost, recorded |-> <<>>,
              paid |-> 0]
        ELSE [data |-> rec.data, status |-> 200, cost |-> chk.cost,
              recorded |-> rec.recorded, paid |-> 1]

\* the tools chat_enhanced picks from the message; "none" is the default branch
Tools == {"none", "injury"} \cup { e.name : e \in AiEndpoints }

\* chat_enhanced, the tool's branch: the endpoint is awaited inside a try whose
\* except catches its HTTPException and reports it in enhanced_data
call_tool(dm, tool, inner_ok) ==
    IF tool = "none"
    THEN [data |-> dm, status |-> 200, cost |-> 0, recorded |-> <<>>, paid |-> 0]
    ELSE IF tool = "injury"
    THEN direct_endpoint(dm, 500, 400, IF inner_ok THEN "ok" ELSE "raise")
    ELSE ai_endpoint(dm, CHOOSE e \in AiEndpoints : e.name = tool, inner_ok)

\* mutant: nothing is recorded for the outer request when the tool failed
record_enhanced_skip(cost, inner) ==
    LET rec == IF inner.status = 200 THEN record_api_usage(inner.data, cost)
               ELSE [data |-> inner.data, recorded |-> <<>>]
    IN  [data |-> rec.data, status |-> 200, cost |-> cost,
         recorded |-> inner.recorded \o rec.recorded, paid |-> inner.paid,
         inner |-> inner.status]

\* chat_enhanced, after the tool: record_api_usage(estimated_cost)
record_enhanced(cost, inner) ==
    LET rec == record_api_usage(inner.data, cost)
    IN  [data |-> rec.data, status |-> 200, cost |-> cost,
         recorded |-> inner.recorded \o rec.recorded, paid |-> inner.paid,
         inner |-> inner.status]

\* chat_enhanced: the outer check, the tool's endpoint, the outer record
chat_enhanced(dm, tool, inner_ok) ==
    LET chk == check_rate_limit(dm, "gpt-4o", 2000, 1000)
    IN  IF chk.status = 429
        THEN [data |-> chk.data, status |-> 429, cost |-> chk.cost, recorded |-> <<>>,
              paid |-> 0, inner |-> 0]
        ELSE record_enhanced(chk.cost, call_tool(chk.data, tool, inner_ok))

\* chat_enhanced: what the tool's branch appends to enhanced_responses
enhanced_data(tool, r) ==
    IF r.status # 200 THEN ""
    ELSE IF tool = "none" THEN "none"
    ELSE IF r.inner = 200 THEN "data"
    ELSE "error"

----------------------------------------------------------------------------
(* SpecGated: the API serves requests; every paid call goes through a gate.   *)
(* It starts after PriorChats approved POST /chat requests made at time 0,    *)
(* each recorded at its estimate of 0.025.                                    *)

InitGated ==
    /\ enabled = TRUE
    /\ sessionAvail \in BOOLEAN
    /\ hasFallback = IF sessionAvail THEN {} ELSE Instances
    /\ now = 0
    /\ log = [n \in 1..PriorChats |->
                 <<get_data("api"), 0, estimate_request_cost("gpt-4o", 1000, 500)>>]
    /\ data = [k \in Stores |->
                  IF k = get_data("api")
                  THEN [hourly_usage |-> [n \in 1..PriorChats |-> <<IsoFormat(0), log[n][3]>>],
                        total_spent_today |-> SumLog0(log),
                        last_reset |-> IsoFormat(0)]
                  ELSE NewData(0)]
    /\ ret = NoRet

\* one request served: r is what the handler did, tool and inner the endpoint it
\* awaited and that endpoint's status (0: none)
Responded(op, r, tool, inner, returned) ==
    /\ Len(log) < PriorChats + MaxRecords
    /\ data' = r.data
    /\ log' = log \o r.recorded
    /\ ret' = [NoRet EXCEPT !.op = op, !.inst = "api", !.at = now,
                            !.allowed = (r.status # 429), !.cost = r.cost,
                            !.status = r.status, !.tool = tool, !.inner = inner,
                            !.records = Len(r.recorded), !.paid = r.paid,
                            !.checked = TRUE, !.returned = returned]
    /\ UNCHANGED <<enabled, sessionAvail, hasFallback, now>>

Served(op, r, tool, inner) == Responded(op, r, tool, inner, "")

AiEndpointCall(e, fetch_ok) == Served(e.name, ai_endpoint(data, e, fetch_ok), "", 0)

ChatCompleteCall(outcome) == Served("/chat", direct_endpoint(data, 1000, 500, outcome), "", 0)

InjuryReportCall(outcome) ==
    Served("/ai/injury_report", direct_endpoint(data, 500, 400, outcome), "", 0)

ChatEnhancedCall(tool, inner_ok) ==
    LET r == chat_enhanced(data, tool, inner_ok)
    IN  Responded("/chat/enhanced", r, tool, r.inner, enhanced_data(tool, r))

NextGated ==
    \/ Tick
    \/ \E e \in AiEndpoints, fetch_ok \in BOOLEAN : AiEndpointCall(e, fetch_ok)
    \/ \E outcome \in {"ok", "raise"} : ChatCompleteCall(outcome)
    \/ \E outcome \in {"ok", "raise", "skip"} : InjuryReportCall(outcome)
    \/ \E tool \in Tools, inner_ok \in BOOLEAN : ChatEnhancedCall(tool, inner_ok)

SpecGated == InitGated /\ [][NextGated]_vars

----------------------------------------------------------------------------
(* SpecDecorator: functions wrapped by check_rate_limit_decorator are called, *)
(* and POST /chat and the AI endpoints are served.  The wrapped function      *)
(* returns a dict, returns an OpenAI response with usage data, returns an     *)
(* object whose usage cannot be read, or raises.  It starts with an empty     *)
(* ledger or with one record of 9.95 on the decorator's ledger.               *)

\* the endpoints served here: two of the four
DecoratedEndpoints ==
    { e \in AiEndpoints : e.name \in {"/ai/optimize_lineup", "/ai/trade_analysis"} }

\* the estimates given to the decorator of their methods in ai_services.py
DecoratedEstimates == { <<e.inp, e.out>> : e \in DecoratedEndpoints }

RaiseResult == [NoResult EXCEPT !.kind = "raise"]

\* what the wrapped function does
FuncResults ==
    { DictResult,
      RaiseResult,
      [NoResult EXCEPT !.kind = "broken"],
      [kind |-> "response", model |-> "gpt-4", prompt_tokens |-> 1200,
       completion_tokens |-> 700],
      [kind |-> "response", model |-> "gpt-4o", prompt_tokens |-> 1200,
       completion_tokens |-> 700] }

InitDecorator ==
    /\ enabled = TRUE
    /\ sessionAvail \in BOOLEAN
    /\ hasFallback = IF sessionAvail THEN {} ELSE Instances
    /\ now = 0
    /\ log \in PriorLogs(get_data("module"))
    /\ data = [k \in Stores |->
                  IF k = get_data("module") THEN Replay(NewData(0), log) ELSE NewData(0)]
    /\ ret = NoRet

WrapperCall(a, result) ==
    LET r == wrapper(data, a[1], a[2], result)
    IN  /\ Len(log) < MaxRecords
        /\ data' = r.data
        /\ log' = log \o r.recorded
        /\ ret' = [NoRet EXCEPT !.op = "wrapper", !.inst = "module", !.at = now,
                                !.model = DEFAULT_MODEL, !.inp = a[1], !.out = a[2],
                                !.cost = estimate_request_cost(DEFAULT_MODEL, a[1], a[2]),
                                !.allowed = (r.called = 1), !.paid = r.called,
                                !.records = Len(r.recorded),
                                !.returned = r.returned, !.result = result]
        /\ UNCHANGED <<enabled, sessionAvail, hasFallback, now>>

NextDecorator ==
    \/ Tick
    \/ \E a \in DecoratedEstimates, result \in FuncResults : WrapperCall(a, result)
    \/ \E outcome \in {"ok", "raise"} : Len(log) < MaxRecords /\ ChatCompleteCall(outcome)
    \/ \E e \in DecoratedEndpoints, fetch_ok \in BOOLEAN :
          Len(log) < MaxRecords /\ AiEndpointCall(e, fetch_ok)

SpecDecorator == InitDecorator /\ [][NextDecorator]_vars

----------------------------------------------------------------------------
(* SpecApi: every endpoint of api/main.py that calls the LLM service or the   *)
(* limiter, and the usage display of main_client.py that reads /usage/stats   *)

\* chat_stream: the agent's stream is returned; the limiter is not called
ChatStreamCall ==
    /\ ret' = [NoRet EXCEPT !.op = "/chat/stream", !.inst = "api", !.at = now,
                            !.status = 200, !.paid = 1]
    /\ UNCHANGED <<enabled, sessionAvail, hasFallback, data, now, log>>

\* get_usage_stats of api/main.py (GET /usage/stats); amounts are rounded to
\* 0.001 USD and the percentage to 0.1
usage_stats_endpoint(dm) ==
    LET k == get_data("api")
        cur == get_current_hourly_usage(LoadFrom(dm, k), now)
        current_usage == cur.value
        remaining_budget == IF HOURLY_LIMIT - current_usage > 0
                            THEN HOURLY_LIMIT - current_usage ELSE 0
    IN  IF enabled
        THEN [data |-> StoreIn(dm, k, cur.data),
              status |-> "success", rate_limiting_enabled |-> TRUE,
              current_hourly_usage |-> Round(current_usage, CentUnits \div 10),
              remaining_budget |-> Round(remaining_budget, CentUnits \div 10),
              percentage_used |-> Round(current_usage \div (HOURLY_LIMIT \div PctUnits),
                                        PctUnits \div 1000)]
        ELSE [data |-> dm,
              status |-> "warning", rate_limiting_enabled |-> FALSE,
              current_hourly_usage |-> 0, remaining_budget |-> 0, percentage_used |-> 0]

\* main_client.py: the sidebar loads /usage/stats and shows percentage_used,
\* or the warning that rate limiting is not enabled
UsageDisplayCall ==
    LET r == usage_stats_endpoint(data)
    IN  /\ data' = r.data
        /\ ret' = [NoRet EXCEPT !.op = "usage_display", !.inst = "api", !.at = now,
                                !.usage = r.current_hourly_usage,
                                !.status = 200, !.shown = r.percentage_used,
                                !.returned = IF r.rate_limiting_enabled THEN r.status
                                             ELSE "Rate limiting not enabled"]
        /\ UNCHANGED <<enabled, sessionAvail, hasFallback, now, log>>

\* reset_usage_stats (POST /usage/reset)
ResetUsageStatsCall ==
    LET k == get_data("api")
    IN  /\ data' = IF enabled THEN Store(k, [Load(k) EXCEPT !.hourly_usage = <<>>])
                   ELSE data
        /\ ret' = [NoRet EXCEPT !.op = "/usage/reset", !.inst = "api", !.at = now,
                                !.status = 200,
                                !.returned = IF enabled THEN "Usage statistics reset"
                                             ELSE "Rate limiting not enabled"]
        /\ UNCHANGED <<enabled, sessionAvail, hasFallback, now, log>>

NextApi ==
    \/ NextGated
    \/ ChatStreamCall
    \/ UsageDisplayCall
    \/ ResetUsageStatsCall

SpecApi == InitGated /\ [][NextApi]_vars

----------------------------------------------------------------------------
(* SpecFailOpen: the API process when "from rate_limiter import ..." raised   *)
(* ImportError in api/main.py and api/ai_services.py: no RateLimiter exists   *)

InitFailOpen ==
    /\ enabled = FALSE
    /\ sessionAvail = FALSE
    /\ hasFallback = {}
    /\ data = [k \in Stores |-> NewData(0)]
    /\ now = 0
    /\ log = <<>>
    /\ ret = NoRet

SpecFailOpen == InitFailOpen /\ [][NextApi]_vars

----------------------------------------------------------------------------
(* SpecAdmin: the operations of Spec and the two resets, reset_daily_usage    *)
(* of the limiter and POST /usage/reset of the API                            *)

ResetDailyUsageCall(i) ==
    LET k == get_data(i)
    IN  /\ Len(log) < MaxRecords
        /\ log' = Append(log, <<k, now, 0, "reset">>)
        /\ data' = Store(k, reset_daily_usage(Load(k), now))
        /\ ret' = [NoRet EXCEPT !.op = "reset_daily_usage", !.inst = i, !.at = now]
        /\ UNCHANGED <<enabled, sessionAvail, hasFallback, now>>

NextAdmin ==
    \/ Next
    \/ ResetDailyUsageCall("module")
    \/ ResetUsageStatsCall

SpecAdmin == Init /\ [][NextAdmin]_vars

----------------------------------------------------------------------------
(* SpecScope: the decorator's limiter (rate_limiter.rate_limiter) and the     *)
(* limiter of api/main.py used side by side, and a further RateLimiter        *)
(* constructed meanwhile.  The session state either works (one dict under     *)
(* "rate_limiter_data"), or raises at construction and afterwards (one        *)
(* _fallback_data per object), or holds no entry when the limiter is called   *)
(* (constructed under another session state: no _fallback_data either).       *)

InitScope ==
    /\ enabled = TRUE
    /\ sessionAvail \in BOOLEAN
    /\ hasFallback \in (IF sessionAvail THEN {{}} ELSE {{}, {"module", "api"}})
    /\ data = [k \in Stores |-> NewData(0)]
    /\ now = 0
    /\ log = <<>>
    /\ ret = NoRet

\* RateLimiter(): __init__ and _initialize_session_state of a new object i
RateLimiterCall(i) ==
    /\ IF sessionAvail
       THEN \* the entry is there since the first construction
            UNCHANGED <<hasFallback, data>>
       ELSE /\ hasFallback' = hasFallback \cup {i}
            /\ data' = [data EXCEPT ![i] = NewData(now)]
    /\ ret' = [NoRet EXCEPT !.op = "RateLimiter", !.inst = i, !.at = now]
    /\ UNCHANGED <<enabled, sessionAvail, now, log>>

NextScope ==
    \/ Tick
    \/ \E i \in {"module", "api"} :
          \/ \E a \in CallArgs : CanMakeRequestCall(i, a)
          \/ \E c \in RecordCosts : RecordUsageCall(i, c)
    \/ RateLimiterCall("test")

SpecScope == InitScope /\ [][NextScope]_vars

----------------------------------------------------------------------------
(* SpecSequential: one caller at a time uses the limiter of api/main.py the   *)
(* way POST /chat does: can_make_request, and when it approves, one           *)
(* record_usage before the next check.  The recorded cost is the estimate or  *)
(* nothing.  It starts as SpecGated does.                                     *)

\* an approved check waits for its record
Pending == ret.op = "can_make_request" /\ ret.allowed

SequentialCheck(a) ==
    /\ ~Pending
    /\ CanMakeRequestCall("api", a)

SequentialRecord ==
    /\ Pending
    /\ Len(log) < PriorChats + MaxRecords
    /\ \E c \in {0, ret.cost} : RecordUsage("api", c)

NextSequential ==
    \/ Tick
    \/ \E a \in CallArgs : SequentialCheck(a)
    \/ SequentialRecord

SpecSequential == InitGated /\ [][NextSequential]_vars

----------------------------------------------------------------------------
(* Vocabulary of the properties *)

\* the ledger of key k after the step
NextLoad(k) == IF k = "temp" THEN NewData(now') ELSE data'[k]

\* the record_usage calls made on ledger k
LogOf(k) == SelectSeq(log, LAMBDA e : e[1] = k)

SumLog(s) == SumLog0(s)

\* the timestamp is less than an hour before t / more than an hour before t
Younger(rec, t) == FromIsoFormat(rec[1]) > t - TicksPerHour
Older(rec, t) == FromIsoFormat(rec[1]) < t - TicksPerHour

\* c cents is x rounded to the nearest cent
IsCents(c, x) == 2 * (c * CentUnits - x) <= CentUnits /\ 2 * (x - c * CentUnits) <= CentUnits

RetLedger == Load(get_data(ret.inst)).hourly_usage

----------------------------------------------------------------------------
(* Properties of Spec *)

\* C1: can_make_request returns allowed = FALSE exactly when the window usage
\* plus the estimate exceeds HOURLY_LIMIT, allows a sum equal to the limit,
\* and returns the estimate of estimate_request_cost.
C1_GateArithmetic ==
    [][\A i \in Instances, a \in CallArgs :
          CanMakeRequestCall(i, a) =>
              LET usage == get_current_hourly_usage(Load(get_data(i)), now).value
                  est == estimate_request_cost(a[1], a[2], a[3])
              IN  /\ ret'.allowed = ~(usage + est > HOURLY_LIMIT)
                  /\ (usage + est = HOURLY_LIMIT => ret'.allowed)
                  /\ ret'.cost = est]_vars

C1_Witness ==
    /\ ret.op = "can_make_request"
    /\ ret.allowed
    /\ SumCosts(RetLedger) + ret.cost = HOURLY_LIMIT

\* C3: when every record_usage call made on the ledger is less than an hour
\* old, get_current_hourly_usage returns exactly the sum of the recorded costs.
C3_ReadAfterWrite ==
    ret.op = "get_current_hourly_usage" =>
        LET mine == LogOf(get_data(ret.inst))
        IN  (\A n \in 1..Len(mine) : mine[n][2] > ret.at - TicksPerHour)
                => ret.usage = SumLog(mine)

C3_Witness ==
    /\ ret.op = "get_current_hourly_usage"
    /\ Len(LogOf(get_data(ret.inst))) >= 2
    /\ \A n \in 1..Len(log) : log[n][2] > ret.at - TicksPerHour
    /\ ret.usage = SumLog(LogOf(get_data(ret.inst)))

\* C4: a record more than an hour old at the time of a read
\* (get_current_hourly_usage, can_make_request, get_usage_stats) is not stored
\* after the read and takes no part in the usage returned, in the decision or
\* in the request count; the read removes nothing younger than an hour.
C4_EvictionCorrectness ==
    [][\A i \in Instances :
          (\/ GetCurrentHourlyUsageCall(i)
           \/ GetUsageStatsCall(i)
           \/ \E a \in CallArgs : CanMakeRequestCall(i, a)) =>
              LET old == Load(get_data(i)).hourly_usage
                  new == NextLoad(get_data(i)).hourly_usage
              IN  /\ \A n \in 1..Len(new) : ~Older(new[n], now)
                  /\ new \in { SelectSeq(old, LAMBDA rec : Younger(rec, now)),
                               SelectSeq(old, LAMBDA rec : ~Older(rec, now)) }
                  /\ ret'.usage = SumCosts(new)
                  /\ ret'.op = "get_usage_stats" =>
                        ret'.stats.requests_this_hour = Len(new)
                  /\ ret'.op = "can_make_request" =>
                        ret'.allowed = (SumCosts(new) + ret'.cost <= HOURLY_LIMIT)]_vars

C4_Witness ==
    /\ ret.op \in {"get_current_hourly_usage", "can_make_request", "get_usage_stats"}
    /\ ret.evicted > 0
    /\ \E n \in 1..Len(log) : log[n][2] < ret.at - TicksPerHour
    /\ ret.usage = SumCosts(RetLedger)
    /\ ret.usage < SumLog(log)

\* C5 as stated: a can_make_request call that repeats the previous call, with
\* nothing recorded in between, returns the same (allowed, cost, reason).
C5_Original ==
    [][\A i \in Instances, a \in CallArgs :
          (CanMakeRequestCall(i, a) /\ Repeat("can_make_request", i, a) = 2) =>
              /\ ret'.allowed = ret.allowed
              /\ ret'.cost = ret.cost
              /\ ret'.reason = ret.reason]_vars

\* C5 amended: the repeated call returns the same result when every record
\* the ledger holds is still less than an hour old.
C5_IdempotentRead ==
    [][\A i \in Instances, a \in CallArgs :
          (/\ CanMakeRequestCall(i, a)
           /\ Repeat("can_make_request", i, a) = 2
           /\ \A n \in 1..Len(Load(get_data(i)).hourly_usage) :
                  Younger(Load(get_data(i)).hourly_usage[n], now)) =>
              /\ ret'.allowed = ret.allowed
              /\ ret'.cost = ret.cost
              /\ ret'.reason = ret.reason]_vars

C5_Witness ==
    /\ ret.op = "can_make_request"
    /\ ret.repeat = 2
    /\ ~ret.allowed
    /\ RetLedger # <<>>
    /\ \A n \in 1..Len(RetLedger) : Younger(RetLedger[n], now)

\* C6 as stated: can_make_request changes nothing of the ledger.
C6_Original ==
    [][\A i \in Instances, a \in CallArgs : CanMakeRequestCall(i, a) => data' = data]_vars

\* C6 amended: can_make_request, approved or rejected, leaves
\* total_spent_today, last_reset and every record less than an hour old as
\* they are and adds nothing; all it removes is records an hour old or older.
C6_NoSideEffect ==
    [][\A i \in Instances, a \in CallArgs :
          CanMakeRequestCall(i, a) =>
              LET k == get_data(i)
              IN  /\ NextLoad(k).total_spent_today = Load(k).total_spent_today
                  /\ NextLoad(k).last_reset = Load(k).last_reset
                  /\ NextLoad(k).hourly_usage =
                        SelectSeq(Load(k).hourly_usage, LAMBDA rec : Younger(rec, now))
                  /\ \A o \in Stores \ {k} : data'[o] = data[o]]_vars

C6_Witness ==
    /\ ret.op = "can_make_request"
    /\ ret.allowed
    /\ ret.evicted > 0
    /\ RetLedger # <<>>
    /\ Load(get_data(ret.inst)).total_spent_today = SumLog(LogOf(get_data(ret.inst)))

\* C9: record_usage(cost) puts exactly one new record (now, cost) at the end
\* of the ledger and adds cost to total_spent_today; the records less than an
\* hour old stay as they are, in order, and last_reset is not changed.
C9_RecordUsage ==
    [][\A i \in Instances, c \in RecordCosts :
          RecordUsageCall(i, c) =>
              LET k == get_data(i)
                  old == Load(k).hourly_usage
                  new == NextLoad(k).hourly_usage
                  front == SubSeq(new, 1, Len(new) - 1)
              IN  /\ Len(new) >= 1
                  /\ new[Len(new)] = <<IsoFormat(now), c>>
                  /\ FromIsoFormat(new[Len(new)][1]) = now
                  /\ front \in { old,
                                 SelectSeq(old, LAMBDA rec : Younger(rec, now)),
                                 SelectSeq(old, LAMBDA rec : ~Older(rec, now)) }
                  /\ NextLoad(k).total_spent_today = Load(k).total_spent_today + c
                  /\ NextLoad(k).last_reset = Load(k).last_reset
                  /\ \A o \in Stores \ {k} : data'[o] = data[o]]_vars

C9_Witness ==
    /\ ret.op = "record_usage"
    /\ Len(RetLedger) >= 2
    /\ RetLedger[Len(RetLedger)] = <<IsoFormat(ret.at), ret.cost>>
    /\ ret.at > 0
    /\ Load(get_data(ret.inst)).total_spent_today = SumLog(LogOf(get_data(ret.inst)))

\* C10: a rejection's reason carries the limit, the window usage, the estimate
\* and the remaining budget HOURLY_LIMIT - usage, each to the nearest cent; on
\* a ledger holding only a record of 9.99 a request estimated at 0.025 is
\* rejected and the remaining budget reads 0.01.
C10_RejectionReason ==
    /\ (ret.op = "can_make_request" /\ ~ret.allowed) =>
          /\ ret.reason.text = "Would exceed hourly limit"
          /\ IsCents(ret.reason.limit, HOURLY_LIMIT)
          /\ IsCents(ret.reason.usage, SumCosts(RetLedger))
          /\ IsCents(ret.reason.cost, ret.cost)
          /\ IsCents(ret.reason.remaining, HOURLY_LIMIT - SumCosts(RetLedger))
    /\ (/\ ret.op = "can_make_request"
        /\ Len(RetLedger) = 1
        /\ RetLedger[1][2] = 99900000
        /\ ret.cost = 250000) =>
          /\ ~ret.allowed
          /\ ret.reason.remaining = 1

C10_Witness ==
    /\ ret.op = "can_make_request"
    /\ log = << <<get_data(ret.inst), ret.at, 99900000>> >>
    /\ RetLedger = << <<IsoFormat(ret.at), 99900000>> >>
    /\ ret.cost = 250000
    /\ ~ret.allowed
    /\ ret.reason.remaining = 1

\* C18: get_current_hourly_usage changes the ledger only by removing the
\* records an hour old or older; evicting once more at the same instant
\* changes nothing, so a second call at the same instant leaves every ledger
\* as it is and returns the same sum.
C18_EvictionIdempotent ==
    [][\A i \in Instances :
          GetCurrentHourlyUsageCall(i) =>
              LET k == get_data(i)
                  once == SelectSeq(Load(k).hourly_usage, LAMBDA rec : Younger(rec, now))
              IN  /\ NextLoad(k) = [Load(k) EXCEPT !.hourly_usage = once]
                  /\ SelectSeq(once, LAMBDA rec : Younger(rec, now)) = once
                  /\ clean_old_usage(NextLoad(k), now) = NextLoad(k)
                  /\ \A o \in Stores \ {k} : data'[o] = data[o]
                  /\ log' = log
                  /\ ret'.usage = SumCosts(once)
                  /\ (ret.op = "get_current_hourly_usage" /\ ret.inst = i /\ ret.at = now) =>
                        (data' = data /\ ret'.usage = ret.usage)]_vars

C18_Witness ==
    /\ ret.op = "get_current_hourly_usage"
    /\ ret.twice > 0
    /\ ret.evicted = 0
    /\ RetLedger # <<>>
    /\ ret.usage = SumCosts(RetLedger)

\* C20: a ledger on which nothing was recorded is empty with a daily total of
\* 0; on it get_usage_stats reports usage 0, remaining budget HOURLY_LIMIT,
\* percentage 0, 0 requests and daily total 0, and
\* can_make_request("gpt-4-turbo", 1000, 500) returns (True, 0.025,
\* "Request within limits").
C20_FreshLedger ==
    /\ \A k \in Stores :
          LogOf(k) = <<>> =>
              /\ data[k].hourly_usage = <<>>
              /\ data[k].total_spent_today = 0
              /\ FromIsoFormat(data[k].last_reset) = 0
    /\ LogOf(get_data(ret.inst)) = <<>> =>
          /\ ret.op = "get_current_hourly_usage" => ret.usage = 0
          /\ ret.op = "get_usage_stats" =>
                ret.stats = [hourly_usage |-> 0, hourly_limit |-> HOURLY_LIMIT,
                             remaining_budget |-> HOURLY_LIMIT, usage_percentage |-> 0,
                             requests_this_hour |-> 0, daily_total |-> 0]
          /\ (ret.op = "can_make_request"
                /\ <<ret.model, ret.inp, ret.out>> = <<"gpt-4-turbo", 1000, 500>>) =>
                /\ ret.allowed
                /\ ret.cost = 250000
                /\ ret.cost * 40 = CentUnits * 100
                /\ ret.reason.text = "Request within limits"

C20_Witness ==
    /\ log = <<>>
    /\ ret.op = "can_make_request"
    /\ <<ret.model, ret.inp, ret.out>> = <<"gpt-4-turbo", 1000, 500>>
    /\ ret.allowed
    /\ ret.cost = 250000
    /\ ret.reason = WithinLimits
    /\ Load(get_data(ret.inst)) = [hourly_usage |-> <<>>, total_spent_today |-> 0,
                                   last_reset |-> <<0>>]

\* C24: a rejection is temporary: when a can_make_request follows a rejected
\* one on the same limiter, nothing was recorded in between and every record
\* of the ledger was made an hour ago or earlier, a request whose estimate is
\* at most HOURLY_LIMIT is approved against a window usage of 0; the check
\* itself evicts the old records, nothing else having removed them.
C24_RejectionIsTemporary ==
    [][\A a \in CallArgs :
          LET k == get_data("module")
          IN  ( /\ ret.op = "can_make_request" /\ ret.inst = "module" /\ ~ret.allowed
                /\ CanMakeRequestCall("module", a)
                /\ ret'.cost <= HOURLY_LIMIT
                /\ \A n \in 1..Len(LogOf(k)) : LogOf(k)[n][2] <= now - TicksPerHour )
              => /\ ret'.allowed
                 /\ ret'.usage = 0
                 /\ ret'.reason = WithinLimits
                 /\ Load(k).hourly_usage # <<>>
                 /\ ret'.evicted = Len(Load(k).hourly_usage)
                 /\ NextLoad(k).hourly_usage = <<>>
      ]_vars

\* the same request is checked twice with nothing but the clock in between;
\* the second check, exactly one hour after the record, evicts the record that
\* made the first one fail, and approves
C24_Witness ==
    /\ ret.op = "can_make_request"
    /\ ret.repeat = 2
    /\ ret.allowed
    /\ ret.evicted = 1
    /\ RetLedger = <<>>
    /\ Len(log) = 1
    /\ log[1][2] = ret.at - TicksPerHour
    /\ log[1][3] + ret.cost > HOURLY_LIMIT

\* C25: the window boundary is exclusive: after an operation that evicts, the
\* ledger holds exactly the records made strictly later than one hour before
\* the call, so a record made exactly one hour before is gone; the usage a read
\* returns is the sum of the strictly younger records only, and the decision
\* of can_make_request is taken on that sum.
C25_ExclusiveBoundary ==
    LET k == get_data(ret.inst)
        young == SelectSeq(LogOf(k), LAMBDA e : e[2] > ret.at - TicksPerHour)
    IN  ret.op \in {"get_current_hourly_usage", "can_make_request",
                    "get_usage_stats", "record_usage"} =>
            /\ Load(k).hourly_usage =
                   [n \in 1..Len(young) |-> <<IsoFormat(young[n][2]), young[n][3]>>]
            /\ \A n \in 1..Len(RetLedger) :
                   FromIsoFormat(RetLedger[n][1]) # ret.at - TicksPerHour
            /\ ret.op # "record_usage" => ret.usage = SumLog(young)
            /\ ret.op = "can_make_request" =>
                   (ret.allowed <=> SumLog(young) + ret.cost <= HOURLY_LIMIT)

\* a record of exactly one hour, which would have caused a rejection, has been
\* evicted by the check and the request is approved on the younger record alone
C25_Witness ==
    /\ ret.op = "can_make_request"
    /\ ret.allowed
    /\ ret.evicted = 1
    /\ Len(RetLedger) = 1
    /\ ret.usage = RetLedger[1][2]
    /\ \E n \in 1..Len(log) :
          /\ log[n][2] = ret.at - TicksPerHour
          /\ log[n][3] + ret.cost > HOURLY_LIMIT

----------------------------------------------------------------------------
(* Properties of SpecEstimate *)

\* C7: for a model name that is not in OPENAI_PRICING (such as "gpt-4o")
\* estimate_request_cost and can_make_request price the request with the
\* default model's prices.
C7_DefaultModelFallback ==
    (ret.op \in {"estimate_request_cost", "can_make_request"}
        /\ ret.model \notin DOMAIN OPENAI_PRICING) =>
        /\ ret.cost = estimate_request_cost(DEFAULT_MODEL, ret.inp, ret.out)
        /\ ret.cost = ret.inp * OPENAI_PRICING["gpt-4-turbo"].input
                        + ret.out * OPENAI_PRICING["gpt-4-turbo"].output
        /\ ret.op = "can_make_request" =>
              ret.allowed = (SumCosts(RetLedger) + ret.cost <= HOURLY_LIMIT)

C7_Witness ==
    /\ ret.op = "can_make_request"
    /\ ret.model = "gpt-4o"
    /\ ret.inp = 2500 /\ ret.out = 800
    /\ ret.cost = 490000
    /\ RetLedger # <<>>
    /\ ret.allowed

\* C8: for a model of OPENAI_PRICING estimate_request_cost returns
\* input_tokens * input price + output_tokens * output price, and its result
\* is never negative.
C8_EstimateFormula ==
    ret.op = "estimate_request_cost" =>
        /\ ret.cost >= 0
        /\ ret.model \in DOMAIN OPENAI_PRICING =>
              ret.cost = ret.inp * OPENAI_PRICING[ret.model].input
                           + ret.out * OPENAI_PRICING[ret.model].output

C8_Witness ==
    /\ ret.op = "estimate_request_cost"
    /\ ret.model = "gpt-4"
    /\ ret.inp = 2500 /\ ret.out = 1500
    /\ ret.cost = 1650000

----------------------------------------------------------------------------
(* Properties of SpecGated *)

\* C2: when every paid call is gated (checked, made only when approved, then
\* recorded), the costs recorded within the last hour never sum to more than
\* HOURLY_LIMIT, in any ledger.
C2_HourlyLimit ==
    \A k \in Stores :
        SumCosts(SelectSeq(data[k].hourly_usage, LAMBDA rec : Younger(rec, now)))
            <= HOURLY_LIMIT

\* C27: a POST /chat/enhanced whose own check is approved answers "success"
\* and records its estimate of 0.05 exactly once, as the last record, whatever
\* the tool did: when the tool's endpoint was rejected with 429 (or failed with
\* 400 or 500) the failure is an error entry of enhanced_data and no other
\* record is made; in the default branch no tool runs and the one record is
\* the outer estimate.
C27_EnhancedChat ==
    (ret.op = "/chat/enhanced" /\ ret.status # 429) =>
        LET made == SubSeq(log, Len(log) - ret.records + 1, Len(log))
        IN  /\ ret.status = 200
            /\ ret.cost = estimate_request_cost("gpt-4o", 2000, 1000)
            /\ ret.records >= 1
            /\ log[Len(log)] = <<get_data("api"), ret.at, ret.cost>>
            /\ Cardinality({n \in 1..Len(made) : made[n][3] = ret.cost}) = 1
            /\ ret.inner \in {429, 400, 500} =>
                   ret.returned = "error" /\ ret.records = 1
            /\ ret.tool = "none" =>
                   ret.returned = "none" /\ ret.records = 1 /\ ret.paid = 0
            /\ (ret.tool # "none" /\ ret.inner = 200) => ret.returned = "data"

\* the outer check passed, the check of /ai/trade_analysis was rejected, and
\* the request still answered "success" with the outer estimate recorded
C27_Witness ==
    /\ ret.op = "/chat/enhanced"
    /\ ret.tool = "/ai/trade_analysis"
    /\ ret.inner = 429
    /\ ret.status = 200
    /\ ret.returned = "error"
    /\ ret.records = 1
    /\ ret.paid = 0
    /\ log[Len(log)][3] = 500000

----------------------------------------------------------------------------
(* Properties of SpecTest *)

\* C11: get_usage_stats returns a snapshot of the ledger as eviction leaves it:
\* hourly_usage is the sum of the records kept (all less than an hour old),
\* hourly_limit is 10.00, remaining_budget is max(0, limit - usage),
\* usage_percentage is usage / limit * 100, requests_this_hour is the number of
\* records kept and daily_total is total_spent_today; with records of 0.05,
\* 0.08 and 0.12 the percentage is 2.5 and the count is 3.
C11_UsageStats ==
    ret.op = "get_usage_stats" =>
        LET d == Load(get_data(ret.inst))
            usage == SumCosts(d.hourly_usage)
        IN  /\ \A n \in 1..Len(d.hourly_usage) : Younger(d.hourly_usage[n], ret.at)
            /\ ret.stats.hourly_usage = usage
            /\ ret.stats.hourly_limit = HOURLY_LIMIT
            /\ ret.stats.remaining_budget =
                  (IF usage < HOURLY_LIMIT THEN HOURLY_LIMIT - usage ELSE 0)
            /\ ret.stats.usage_percentage * (HOURLY_LIMIT \div PctUnits) = usage
            /\ ret.stats.requests_this_hour = Len(d.hourly_usage)
            /\ ret.stats.daily_total = d.total_spent_today
            /\ [n \in 1..Len(d.hourly_usage) |-> d.hourly_usage[n][2]]
                    = <<500000, 800000, 1200000>> =>
                  /\ 40 * ret.stats.usage_percentage = PctUnits
                  /\ ret.stats.requests_this_hour = 3

C11_Witness ==
    /\ ret.op = "get_usage_stats"
    /\ Len(log) = 3
    /\ Len(RetLedger) = 3
    /\ ret.stats.hourly_usage = 2500000
    /\ ret.stats.usage_percentage = 25000
    /\ ret.stats.requests_this_hour = 3
    /\ ret.stats.remaining_budget = 97500000

\* C21: in every reachable state the records of every ledger are ordered by
\* time: the parsed timestamps are non-decreasing in list order, record_usage
\* putting the new record last and eviction keeping the order of what it keeps.
C21_OrderedByTime ==
    \A k \in Stores :
        LET h == data[k].hourly_usage
        IN  \A n \in 1..Len(h) : \A m \in n..Len(h) :
                FromIsoFormat(h[n][1]) <= FromIsoFormat(h[m][1])

\* an eviction has removed the oldest record and left two records of
\* different times, the older one first
C21_Witness ==
    /\ ret.evicted > 0
    /\ Len(RetLedger) >= 2
    /\ FromIsoFormat(RetLedger[1][1]) < FromIsoFormat(RetLedger[Len(RetLedger)][1])
    /\ Len(RetLedger) < Len(LogOf(get_data(ret.inst)))

----------------------------------------------------------------------------
(* Properties of the call sites *)

\* C12: in every reachable state every record of every ledger has a cost >= 0,
\* and so the window usage and total_spent_today are >= 0.
C12_NonNegativeCosts ==
    \A k \in Stores :
        /\ \A n \in 1..Len(data[k].hourly_usage) : data[k].hourly_usage[n][2] >= 0
        /\ get_current_hourly_usage(data[k], now).value >= 0
        /\ data[k].total_spent_today >= 0

C12_Witness ==
    /\ ret.op = "/ai/trade_analysis"
    /\ ret.status = 200
    /\ ret.records = 2
    /\ \A n \in PriorChats + 1 .. Len(log) : log[n][3] = 700000
    /\ \E k \in Stores : \E n \in 1..Len(data[k].hourly_usage) :
          data[k].hourly_usage[n] = <<IsoFormat(ret.at), 700000>>

\* C13: two callers of one ledger that both check before either records are
\* each approved against the same usage: chat_enhanced checks its estimate,
\* the endpoint it awaits checks its own, and both pass exactly when each
\* estimate alone fits under HOURLY_LIMIT, whatever their sum; both then record,
\* and the window usage is the usage they checked plus both costs, which can
\* exceed HOURLY_LIMIT.
C13_CheckThenAct ==
    (ret.op = "/chat/enhanced" /\ ret.tool \in { e.name : e \in AiEndpoints }
        /\ ret.inner # 400) =>
        LET k == get_data("api")
            e == CHOOSE x \in AiEndpoints : x.name = ret.tool
            usage == SumLog(SelectSeq(SubSeq(log, 1, Len(log) - ret.records),
                        LAMBDA r : r[1] = k /\ r[2] > ret.at - TicksPerHour))
            outer == estimate_request_cost("gpt-4o", 2000, 1000)
            inner == estimate_request_cost("gpt-4o", e.inp, e.out)
            both == usage + outer <= HOURLY_LIMIT /\ usage + inner <= HOURLY_LIMIT
        IN  /\ (ret.status = 200 /\ ret.inner = 200) = both
            /\ both => SumCosts(RetLedger) =
                          usage + outer + inner * (IF sessionAvail THEN 2 ELSE 1)

C13_Witness ==
    /\ ret.op = "/chat/enhanced"
    /\ ~sessionAvail
    /\ ret.tool = "/ai/optimize_lineup"
    /\ ret.status = 200 /\ ret.inner = 200
    /\ ret.records = 3
    /\ SumCosts(RetLedger) > HOURLY_LIMIT
    /\ \A n \in 1..Len(RetLedger) : Younger(RetLedger[n], now)

\* C15: serving one approved AI endpoint request (check_rate_limit passed, the
\* decorated service method returned, record_api_usage called) appends exactly
\* one record to the ledger of the endpoint's limiter.
C15_ExactlyOnce ==
    (ret.op \in { e.name : e \in AiEndpoints } /\ ret.status = 200) =>
        Len(SelectSeq(SubSeq(log, Len(log) - ret.records + 1, Len(log)),
                      LAMBDA r : r[1] = get_data("api"))) = 1

----------------------------------------------------------------------------
(* Properties of SpecApi *)

\* C14: every operation that calls the LLM service has asked the gate first
\* and was approved, and reports a cost with record_usage when it completes;
\* an operation the gate rejected calls nothing and records nothing.
C14_GateProtocol ==
    /\ ret.paid > 0 => (ret.checked /\ ret.allowed)
    /\ (ret.paid > 0 /\ ret.status = 200) => ret.records > 0
    /\ (ret.checked /\ ~ret.allowed) => (ret.paid = 0 /\ ret.records = 0)

----------------------------------------------------------------------------
(* Properties of SpecAdmin *)

\* the clock starts one hour before midnight: the calendar day of time t
TicksPerDay == 24 * TicksPerHour
DateOf(t) == (t + TicksPerDay - TicksPerHour) \div TicksPerDay

\* the costs recorded on ledger k since its last reset_daily_usage, in history l
SinceReset(l, k) ==
    LET mine == SelectSeq(l, LAMBDA e : e[1] = k)
        resets == { n \in 1..Len(mine) : Len(mine[n]) = 4 }
        start == IF resets = {} THEN 1
                 ELSE 1 + CHOOSE n \in resets : \A m \in resets : m <= n
    IN  SumField(mine, 3, start, Len(mine))

OnlyEvicts(k) ==
    data'[k] = [data[k] EXCEPT !.hourly_usage = SelectSeq(@, LAMBDA rec : Younger(rec, now))]

\* the step is a record_usage call on ledger k: one record appended, its cost
\* added to the daily total, old records evicted
OnlyRecords(k) ==
    /\ ret'.op = "record_usage"
    /\ log' = Append(log, <<k, now, ret'.cost>>)
    /\ data'[k] =
          [data[k] EXCEPT
              !.hourly_usage = SelectSeq(Append(@, <<IsoFormat(now), ret'.cost>>),
                                         LAMBDA rec : Younger(rec, now)),
              !.total_spent_today = @ + ret'.cost]

\* C17 as stated: a step that changes a ledger is a record_usage call or
\* evicts old records and does nothing else.
C17_Original ==
    [][\A k \in Stores :
          data'[k] # data[k] => (OnlyRecords(k) \/ OnlyEvicts(k))]_vars

\* C17 amended: a step that changes a ledger is a record_usage call, an
\* eviction of old records, a reset_daily_usage call (daily total to 0,
\* last_reset to now, records untouched) or POST /usage/reset (all records
\* removed, counters untouched).
C17_OnlyMutators ==
    [][\A k \in Stores :
          data'[k] # data[k] =>
              \/ OnlyRecords(k)
              \/ OnlyEvicts(k)
              \/ /\ ret'.op = "reset_daily_usage"
                 /\ data'[k] = [data[k] EXCEPT !.total_spent_today = 0,
                                               !.last_reset = IsoFormat(now)]
              \/ /\ ret'.op = "/usage/reset"
                 /\ data'[k] = [data[k] EXCEPT !.hourly_usage = <<>>]]_vars

C17_Witness ==
    /\ ret.op = "/usage/reset"
    /\ RetLedger = <<>>
    /\ Len(log) = 2
    /\ \A n \in 1..Len(log) :
          /\ Len(log[n]) = 3
          /\ log[n][1] = get_data(ret.inst)
          /\ log[n][2] > ret.at - TicksPerHour
    /\ Load(get_data(ret.inst)).total_spent_today = SumLog(log)

----------------------------------------------------------------------------
(* Properties of SpecScope *)

\* C22: all paid-call sites share one ledger: after a cost is recorded through
\* the module-level limiter or through the limiter of api/main.py, a
\* can_make_request on either of them counts it (both see the same window
\* usage, which includes the new cost), and constructing another RateLimiter
\* changes no existing ledger.
C22_SharedLedger ==
    [][/\ \A i \in {"module", "api"} : \A c \in RecordCosts :
             RecordUsageCall(i, c) =>
                 \A j \in {"module", "api"} :
                     LET chk == can_make_request(NextLoad(get_data(j)), now',
                                                 DEFAULT_MODEL, 1000, 500)
                     IN  /\ chk.usage >= c
                         /\ chk.usage = SumCosts(NextLoad(get_data(i)).hourly_usage)
       /\ RateLimiterCall("test") =>
             \A k \in Stores \ {"test"} : data'[k] = data[k]
      ]_vars

----------------------------------------------------------------------------
(* Properties of SpecSequential *)

\* C23: when checks and records do not interleave (every approved
\* can_make_request is followed by its caller's one record_usage before the
\* next check), every recorded cost is between 0 and the approved estimate and
\* no ledger is reset, then in every reachable state the costs recorded on a
\* ledger within the last hour, and the window usage the ledger reports, are at
\* most HOURLY_LIMIT.
C23_SequentialSafety ==
    \A k \in Stores :
        /\ SumLog(SelectSeq(LogOf(k), LAMBDA e : e[2] > now - TicksPerHour)) <= HOURLY_LIMIT
        /\ get_current_hourly_usage(data[k], now).value <= HOURLY_LIMIT

\* after approved and recorded requests the window usage is so close to the
\* ceiling that the next check is rejected
C23_Witness ==
    /\ ret.op = "can_make_request"
    /\ ~ret.allowed
    /\ Len(log) > PriorChats
    /\ ret.usage = SumLog(LogOf(get_data(ret.inst)))
    /\ ret.usage <= HOURLY_LIMIT
    /\ ret.usage + ret.cost > HOURLY_LIMIT
    /\ ret.cost = estimate_request_cost(DEFAULT_MODEL, 1000, 500)

----------------------------------------------------------------------------
(* Properties of SpecDecorator *)

\* C26: when the function wrapped by check_rate_limit_decorator raises after the
\* gate approved the call, the wrapper returns None and records nothing: the
\* history and every total_spent_today are unchanged and the ledgers lose at
\* most records an hour old; and when the handler of POST /chat or of an AI
\* endpoint raises after an approved check_rate_limit, the response is an error
\* (400 or 500) and nothing is recorded either.
C26_NoRecordOnRaise ==
    [][( /\ ret'.allowed
         /\ \/ \E a \in DecoratedEstimates : WrapperCall(a, RaiseResult)
            \/ ChatCompleteCall("raise")
            \/ \E e \in DecoratedEndpoints : AiEndpointCall(e, FALSE) )
       => /\ log' = log
          /\ ret'.records = 0
          /\ \A k \in Stores : data'[k] = data[k] \/ OnlyEvicts(k)
          /\ ret'.op = "wrapper" => ret'.returned = "None" /\ ret'.paid = 1
          /\ ret'.op # "wrapper" => ret'.status \in {400, 500}
      ]_vars

\* the wrapped function was run after an approval against a ledger holding a
\* record, raised, and the ledger still holds just that record
C26_Witness ==
    /\ ret.op = "wrapper"
    /\ ret.allowed
    /\ ret.paid = 1
    /\ ret.result = RaiseResult
    /\ ret.returned = "None"
    /\ Len(log) = 1
    /\ Len(RetLedger) = 1
    /\ Load(get_data("module")).total_spent_today = log[1][3]

\* C30: for an approved call whose function does not raise the decorator
\* records exactly one cost: prompt_tokens * input price + completion_tokens *
\* output price of the response's model (of the default model when the model
\* is not in the table) when the result carries usage data; the default
\* estimate of 0.025 when the usage data cannot be read; the estimate of the
\* check when the result has no usage attribute.
C30_RecordedCost ==
    (ret.op = "wrapper" /\ ret.allowed /\ ret.result.kind # "raise") =>
        LET r == ret.result
            priced == IF r.model \in DOMAIN OPENAI_PRICING THEN r.model ELSE DEFAULT_MODEL
            expected ==
                CASE r.kind = "response" ->
                         r.prompt_tokens * OPENAI_PRICING[priced].input
                         + r.completion_tokens * OPENAI_PRICING[priced].output
                  [] r.kind = "broken" -> 250000
                  [] r.kind = "dict" -> ret.cost
        IN  /\ ret.records = 1
            /\ ret.returned = r.kind
            /\ log[Len(log)] = <<get_data("module"), ret.at, expected>>
            /\ RetLedger[Len(RetLedger)] = <<IsoFormat(ret.at), expected>>
            /\ r = [kind |-> "response", model |-> "gpt-4", prompt_tokens |-> 1200,
                    completion_tokens |-> 700] => expected = 780000
            /\ r = [kind |-> "response", model |-> "gpt-4o", prompt_tokens |-> 1200,
                    completion_tokens |-> 700] => expected = 330000

\* a response of gpt-4 with 1200 and 700 tokens was recorded at 0.078 after a
\* check that estimated 0.039
C30_Witness ==
    /\ ret.op = "wrapper"
    /\ ret.allowed
    /\ ret.result.kind = "response"
    /\ ret.result.model = "gpt-4"
    /\ ret.cost = 390000
    /\ ret.records = 1
    /\ log[Len(log)][3] = 780000

----------------------------------------------------------------------------
(* Further properties of SpecAdmin *)

\* requests put to the gate after a reset: those of the callers and one whose
\* estimate (12.00) is above the ceiling
RequestsAfterReset == CallArgs \cup { <<"gpt-4", 200000, 100000>> }

\* C28: POST /usage/reset empties the hourly records of the API limiter's
\* ledger and leaves total_spent_today and last_reset as they were, so that a
\* can_make_request made right after it sees a window usage of 0 and approves
\* exactly the requests whose estimate is at most HOURLY_LIMIT;
\* reset_daily_usage sets total_spent_today to 0 and last_reset to now and
\* leaves the hourly records, so every can_make_request decides after it as it
\* would have decided before it.
C28_Resets ==
    [][/\ ResetUsageStatsCall =>
             LET k == get_data("api")
             IN  /\ NextLoad(k) = [Load(k) EXCEPT !.hourly_usage = <<>>]
                 /\ \A j \in Stores \ {k} : data'[j] = data[j]
                 /\ \A a \in RequestsAfterReset :
                        LET chk == can_make_request(NextLoad(k), now', a[1], a[2], a[3])
                        IN  /\ chk.usage = 0
                            /\ chk.allowed <=> chk.cost <= HOURLY_LIMIT
       /\ ResetDailyUsageCall("module") =>
             LET k == get_data("module")
             IN  /\ NextLoad(k) = [Load(k) EXCEPT !.total_spent_today = 0,
                                                  !.last_reset = IsoFormat(now)]
                 /\ NextLoad(k).hourly_usage = Load(k).hourly_usage
                 /\ \A j \in Stores \ {k} : data'[j] = data[j]
                 /\ \A a \in RequestsAfterReset :
                        LET before == can_make_request(Load(k), now, a[1], a[2], a[3])
                            after == can_make_request(NextLoad(k), now', a[1], a[2], a[3])
                        IN  /\ after.allowed = before.allowed
                            /\ after.usage = before.usage
                            /\ after.cost = before.cost
                            /\ after.reason = before.reason
      ]_vars

\* a request is approved against a window usage of 0 although a record made
\* less than an hour before would have blocked it: POST /usage/reset removed
\* the record, and total_spent_today still counts it
C28_Witness ==
    /\ ret.op = "can_make_request"
    /\ ret.allowed
    /\ ret.usage = 0
    /\ ret.evicted = 0
    /\ RetLedger = <<>>
    /\ \E n \in 1..Len(log) :
          /\ Len(log[n]) = 3
          /\ log[n][1] = get_data(ret.inst)
          /\ log[n][2] > ret.at - TicksPerHour
          /\ log[n][3] + ret.cost > HOURLY_LIMIT
    /\ Load(get_data(ret.inst)).total_spent_today > 0

----------------------------------------------------------------------------
(* Properties of SpecFailOpen *)

\* C29: when the rate_limiter module cannot be imported the API fails open:
\* check_rate_limit returns 0.0 and rejects nothing, so no request is answered
\* with 429; record_api_usage records nothing and no ledger changes; the
\* decorator of the AI service is the identity, so the service method of an
\* AI endpoint always runs and records nothing; GET /usage/stats and POST
\* /usage/reset answer that rate limiting is not enabled.
C29_FailOpen ==
    /\ ret.status # 429
    /\ log = <<>>
    /\ data = [k \in Stores |-> NewData(0)]
    /\ ret.records = 0
    /\ ret.checked => ret.allowed /\ ret.cost = 0
    /\ (ret.op \in { e.name : e \in AiEndpoints } /\ ret.status = 200) => ret.paid = 1
    /\ (ret.op = "/chat/enhanced" /\ ret.tool \in { e.name : e \in AiEndpoints }) =>
           ret.inner # 429 /\ (ret.inner = 200 => ret.paid = 1)
    /\ ret.op \in {"usage_display", "/usage/reset"} =>
           ret.returned = "Rate limiting not enabled"

\* an AI endpoint answered 200 after a check that returned 0.0: the service
\* method ran and nothing was recorded
C29_Witness ==
    /\ ~enabled
    /\ ret.op = "/ai/trade_analysis"
    /\ ret.checked
    /\ ret.status = 200
    /\ ret.cost = 0
    /\ ret.paid = 1
    /\ ret.records = 0
    /\ now > 0

====
